---------------------------- MODULE Spec2Model ----------------------------
(***************************************************************************)
(* Model of the dungeon map of roguelike-rs (src/src/map/map.rs): the      *)
(* generator Map::new, the spatial index, the blocked-tile cache, the      *)
(* neighbour enumeration of the pathing surface and the draw projection.   *)
(*                                                                         *)
(* Conventions                                                             *)
(*   - a Position is a record [x, y]; a Room is a record [first, second];  *)
(*   - tiles, blocked_tiles, entities and the two Viewshed vectors are      *)
(*     functions over the tile indices 0 .. width*height-1 (a Rust Vec);   *)
(*   - an f32 cost is kept in hundredths (1.0 is 100, 1.45 is 145) and a   *)
(*     colour channel in thousandths (0.5 is 500);                         *)
(*   - crate::map::room::Room is not among the source files, so Room_new,  *)
(*     intersect and center follow the written specification of Room.      *)
(***************************************************************************)
EXTENDS Integers, Naturals, Sequences, FiniteSets, TLC

VARIABLES
    width,           \* Map.width
    height,          \* Map.height
    tiles,           \* Map.tiles
    rooms,           \* Map.rooms
    blocked_tiles,   \* Map.blocked_tiles
    entities,        \* Map.entities
    attempt,         \* iterations of the loop of Map::new already run
    pc,              \* "new" inside Map::new, "ready" once it has returned
    coin,            \* rng.range(0, 2) of the last link_rooms_with_tunnels
    refreshed,       \* update_blocked_tiles has been called on this map
    op,              \* the operation that ran last
    exitIndex,       \* argument of the last get_available_exits
    exits,           \* result of the last get_available_exits
    revealed_tiles,  \* Viewshed.revealed_tiles of the actor that is drawn
    visible_tiles,   \* Viewshed.visible_tiles of that actor (both empty
                     \* while no actor has a Viewshed)
    drawn            \* the context.set calls of the last draw, in order

vars == <<width, height, tiles, rooms, blocked_tiles, entities, attempt, pc,
          coin, refreshed, op, exitIndex, exits, revealed_tiles,
          visible_tiles, drawn>>

(***************************************************************************)
(* Bounds of the model                                                     *)
(***************************************************************************)
\* Map::new(Width, Height) of the generation runs
Width == 14
Height == 11
\* largest number of tiles of the grids the exit enumeration is applied to
MaxExitCells == 9
\* largest number of tiles of the grids the cache refresh is applied to
MaxCacheCells == 4
\* largest number of tiles of the grids the draw projection is applied to
MaxDrawCells == 4
\* entity handles that may sit in the per-tile occupant lists
MaxEntities == 1

(***************************************************************************)
(* Program constants                                                       *)
(***************************************************************************)
MAX_ROOMS == 30
MIN_SIZE == 6
MAX_SIZE == 10

Wall == "Wall"
Floor == "Floor"
TileType == {Wall, Floor}

NoCoin == -1
NoIndex == -1

(***************************************************************************)
(* Room (crate::map::room), after its specification                        *)
(***************************************************************************)
Position(px, py) == [x |-> px, y |-> py]

Room_new(top_left, room_width, room_height) ==
    [first |-> top_left,
     second |-> Position(top_left.x + room_width - 1,
                         top_left.y + room_height - 1)]

intersect(self, other) ==
    /\ self.first.x <= other.second.x
    /\ self.second.x >= other.first.x
    /\ self.first.y <= other.second.y
    /\ self.second.y >= other.first.y

center(self) ==
    Position((self.first.x + self.second.x) \div 2,
             (self.first.y + self.second.y) \div 2)

(***************************************************************************)
(* Spatial index                                                           *)
(***************************************************************************)
map_size == width * height

Indices == 0 .. (map_size - 1)

\* (y as usize * self.width as usize) + x as usize; every caller passes
\* non-negative coordinates, where the casts change nothing
index_of(x, y) == (y * width) + x

\* position_of dividing by the height instead of the width
position_of_by_height(index) == <<index % height, index \div height>>

\* (index as i32 % self.width, index as i32 / self.width)
position_of(index) == <<index % width, index \div width>>

is_in_bound(x, y) == x >= 0 /\ x < width /\ y >= 0 /\ y < height

min(a, b) == IF a <= b THEN a ELSE b
max(a, b) == IF a >= b THEN a ELSE b

(***************************************************************************)
(* Map generation                                                          *)
(***************************************************************************)
\* is_placement_valid returning from inside the loop at the first room
is_placement_valid_first_only(room) ==
    IF rooms = <<>> THEN TRUE ELSE ~intersect(room, rooms[1])

\* is_placement_valid asking for some room that is clear of the candidate
is_placement_valid_any(room) ==
    \E k \in 1 .. Len(rooms) : ~intersect(room, rooms[k])

is_placement_valid(room) ==
    \A k \in 1 .. Len(rooms) : ~intersect(room, rooms[k])

\* add_room carving from first instead of first + 1
add_room_from_first(t, room) ==
    LET written == {index_of(x, y) :
                       x \in room.first.x .. room.second.x,
                       y \in room.first.y .. room.second.y}
    IN  [i \in DOMAIN t |-> IF i \in written THEN Floor ELSE t[i]]

\* the tiles after add_room(room) on the tiles t
add_room(t, room) ==
    LET written == {index_of(x, y) :
                       x \in (room.first.x + 1) .. room.second.x,
                       y \in (room.first.y + 1) .. room.second.y}
    IN  [i \in DOMAIN t |-> IF i \in written THEN Floor ELSE t[i]]

\* add_horizontal_tunnel iterating x1..=x2 as given, empty when x1 > x2
add_horizontal_tunnel_unordered(t, x1, x2, y) ==
    LET written == {index \in {index_of(x, y) : x \in x1 .. x2} :
                       index > 0 /\ index < map_size}
    IN  [i \in DOMAIN t |-> IF i \in written THEN Floor ELSE t[i]]

\* the tiles after add_horizontal_tunnel(x1, x2, y) on the tiles t
add_horizontal_tunnel(t, x1, x2, y) ==
    LET written == {index \in {index_of(x, y) : x \in min(x1, x2) .. max(x1, x2)} :
                       index > 0 /\ index < map_size}
    IN  [i \in DOMAIN t |-> IF i \in written THEN Floor ELSE t[i]]

\* the tiles after add_vertical_tunnel(y1, y2, x) on the tiles t
add_vertical_tunnel(t, y1, y2, x) ==
    LET written == {index \in {index_of(x, y) : y \in min(y1, y2) .. max(y1, y2)} :
                       index > 0 /\ index < map_size}
    IN  [i \in DOMAIN t |-> IF i \in written THEN Floor ELSE t[i]]

\* link_rooms_with_tunnels carving both runs at the previous centre
link_rooms_with_tunnels_from_previous(t, new_room, flip) ==
    LET new_room_center == center(new_room)
        previous_room_center == center(rooms[Len(rooms)])
    IN  add_vertical_tunnel(
            add_horizontal_tunnel(t, previous_room_center.x,
                                  new_room_center.x, previous_room_center.y),
            previous_room_center.y, new_room_center.y,
            previous_room_center.x)

\* the tiles after link_rooms_with_tunnels(new_room, rng) on the tiles t,
\* flip being the value of rng.range(0, 2)
link_rooms_with_tunnels(t, new_room, flip) ==
    LET new_room_center == center(new_room)
        previous_room_center == center(rooms[Len(rooms)])
    IN  IF flip = 1
        THEN add_vertical_tunnel(
                 add_horizontal_tunnel(t, previous_room_center.x,
                                       new_room_center.x,
                                       previous_room_center.y),
                 previous_room_center.y, new_room_center.y,
                 new_room_center.x)
        ELSE add_horizontal_tunnel(
                 add_vertical_tunnel(t, previous_room_center.y,
                                     new_room_center.y,
                                     previous_room_center.x),
                 previous_room_center.x, new_room_center.x,
                 new_room_center.y)

\* rng.range(lo, hi): lo <= v < hi
range(lo, hi) == lo .. (hi - 1)

\* rng.roll_dice(1, die_type): 1 <= v <= die_type; no value (the generator
\* panics on the empty range) when die_type < 1
roll_dice(die_type) == 1 .. die_type

\* the tiles after the body of "if map.is_placement_valid(&new_room)"
PlaceRoom(new_room, flip) ==
    LET carved == add_room(tiles, new_room)
    IN  IF rooms # <<>>
        THEN link_rooms_with_tunnels(carved, new_room, flip)
        ELSE carved

\* one iteration of "for _ in 0..MAX_ROOMS" whose room is placed
NewAttemptAccepted ==
    /\ pc = "new"
    /\ attempt < MAX_ROOMS
    /\ \E room_width \in range(MIN_SIZE, MAX_SIZE),
          room_height \in range(MIN_SIZE, MAX_SIZE) :
         \E dx \in roll_dice(width - room_width - 1),
            dy \in roll_dice(height - room_height - 1) :
           LET new_room ==
                 Room_new(Position(dx - 1, dy - 1), room_width, room_height)
           IN  /\ is_placement_valid(new_room)
               /\ \E flip \in (IF rooms # <<>> THEN range(0, 2) ELSE {coin}) :
                    /\ tiles' = PlaceRoom(new_room, flip)
                    /\ coin' = flip
               /\ rooms' = Append(rooms, new_room)
    /\ attempt' = attempt + 1
    /\ UNCHANGED <<width, height, blocked_tiles, entities, pc, refreshed, op,
                   exitIndex, exits, revealed_tiles, visible_tiles, drawn>>

\* one iteration of "for _ in 0..MAX_ROOMS" whose room is skipped
NewAttemptRejected ==
    /\ pc = "new"
    /\ attempt < MAX_ROOMS
    /\ ~(\A room_width \in range(MIN_SIZE, MAX_SIZE),
            room_height \in range(MIN_SIZE, MAX_SIZE) :
           \A dx \in roll_dice(width - room_width - 1),
              dy \in roll_dice(height - room_height - 1) :
             is_placement_valid(
                 Room_new(Position(dx - 1, dy - 1), room_width, room_height)))
    /\ attempt' = attempt + 1
    /\ UNCHANGED <<width, height, tiles, rooms, blocked_tiles, entities, pc,
                   coin, refreshed, op, exitIndex, exits, revealed_tiles,
                   visible_tiles, drawn>>

\* the loop is over: Map::new returns the map
NewReturn ==
    /\ pc = "new"
    /\ attempt = MAX_ROOMS
    /\ pc' = "ready"
    /\ op' = "new"
    /\ UNCHANGED <<width, height, tiles, rooms, blocked_tiles, entities,
                   attempt, coin, refreshed, exitIndex, exits,
                   revealed_tiles, visible_tiles, drawn>>

starting_position == center(rooms[1])

(***************************************************************************)
(* Blocked-tile cache and occupant lists                                   *)
(***************************************************************************)
is_opaque(index) == tiles[index] = Wall

\* update_blocked_tiles that only ever sets a flag
update_blocked_tiles_sticky ==
    [index \in DOMAIN tiles |-> blocked_tiles[index] \/ tiles[index] = Wall]

update_blocked_tiles == [index \in DOMAIN tiles |-> is_opaque(index)]

UpdateBlockedTiles ==
    /\ pc = "ready"
    /\ blocked_tiles' = update_blocked_tiles
    /\ refreshed' = TRUE
    /\ op' = "update_blocked_tiles"
    /\ UNCHANGED <<width, height, tiles, rooms, entities, attempt, pc, coin,
                   exitIndex, exits, revealed_tiles, visible_tiles, drawn>>

clear_entities == [index \in DOMAIN entities |-> <<>>]

ClearEntities ==
    /\ pc = "ready"
    /\ entities' = clear_entities
    /\ op' = "clear_entities"
    /\ UNCHANGED <<width, height, tiles, rooms, blocked_tiles, attempt, pc,
                   coin, refreshed, exitIndex, exits, revealed_tiles,
                   visible_tiles, drawn>>

(***************************************************************************)
(* Pathing surface                                                         *)
(***************************************************************************)
\* is_exit_valid reading the tile instead of the cache
is_exit_valid_by_tile(x, y) ==
    IF ~is_in_bound(x, y) THEN FALSE ELSE tiles[index_of(x, y)] # Wall

\* is_exit_valid without the look at the cache
is_exit_valid_in_bound(x, y) == is_in_bound(x, y)

is_exit_valid(x, y) ==
    IF ~is_in_bound(x, y) THEN FALSE ELSE ~blocked_tiles[index_of(x, y)]

\* exits.push(e) under "if self.is_exit_valid(x, y)"
PushIf(list, x, y, e) == IF is_exit_valid(x, y) THEN Append(list, e) ELSE list

get_available_exits(index) ==
    LET x == position_of(index)[1]
        y == position_of(index)[2]
        e1 == PushIf(<<>>, x - 1, y, <<index - 1, 100>>)
        e2 == PushIf(e1, x + 1, y, <<index + 1, 100>>)
        e3 == PushIf(e2, x, y - 1, <<index - width, 100>>)
        e4 == PushIf(e3, x, y + 1, <<index + width, 100>>)
        e5 == PushIf(e4, x - 1, y - 1, <<(index - width) - 1, 145>>)
        e6 == PushIf(e5, x + 1, y - 1, <<(index - width) + 1, 145>>)
        e7 == PushIf(e6, x - 1, y + 1, <<(index + width) - 1, 145>>)
        e8 == PushIf(e7, x + 1, y + 1, <<(index + width) + 1, 145>>)
    IN  e8

GetAvailableExits(index) ==
    /\ pc = "ready"
    /\ exitIndex' = index
    /\ exits' = get_available_exits(index)
    /\ op' = "get_available_exits"
    /\ UNCHANGED <<width, height, tiles, rooms, blocked_tiles, entities,
                   attempt, pc, coin, refreshed, revealed_tiles,
                   visible_tiles, drawn>>

(***************************************************************************)
(* Draw projection                                                         *)
(***************************************************************************)
\* rltk::to_cp437('.') and rltk::to_cp437('#')
glyph_of(tile) == IF tile = Floor THEN 46 ELSE 35

\* RGB::from_f32(0.0, 0.5, 0.5) and RGB::from_f32(0., 1.0, 0.)
foreground_of(tile) == IF tile = Floor THEN <<0, 500, 500>> ELSE <<0, 1000, 0>>

\* RGB::to_greyscale: the three channels become the luminance
\* 0.2126 r + 0.7152 g + 0.0722 b
to_greyscale(rgb) ==
    LET linear == (rgb[1] * 2126 + rgb[2] * 7152 + rgb[3] * 722) \div 10000
    IN  <<linear, linear, linear>>

\* the wrap test letting x reach width
row_ends_late(x) == x > width

\* "if x > self.width - 1", x being the counter already incremented
row_ends(x) == x > width - 1

\* the body of "for (index, tile) in self.tiles.iter().enumerate()", from
\* tile index on, with the counters x and y and the calls made so far
RECURSIVE DrawLoop(_, _, _, _)
DrawLoop(index, x, y, calls) ==
    IF index >= map_size THEN calls
    ELSE LET tile == tiles[index]
             foreground == IF ~visible_tiles[index]
                           THEN to_greyscale(foreground_of(tile))
                           ELSE foreground_of(tile)
             out == IF revealed_tiles[index]
                    THEN Append(calls, [x |-> x, y |-> y,
                                        foreground |-> foreground,
                                        background |-> <<0, 0, 0>>,
                                        glyph |-> glyph_of(tile)])
                    ELSE calls
         IN  IF row_ends(x + 1)
             THEN DrawLoop(index + 1, 0, y + 1, out)
             ELSE DrawLoop(index + 1, x + 1, y, out)

draw == DrawLoop(0, 0, 0, <<>>)

Draw ==
    /\ pc = "ready"
    /\ drawn' = draw
    /\ op' = "draw"
    /\ UNCHANGED <<width, height, tiles, rooms, blocked_tiles, entities,
                   attempt, pc, coin, refreshed, exitIndex, exits,
                   revealed_tiles, visible_tiles>>

(***************************************************************************)
(* Specification of a generated map: Map::new, then the map in use         *)
(***************************************************************************)
Init ==
    /\ width = Width
    /\ height = Height
    /\ tiles = [i \in 0 .. (Width * Height - 1) |-> Wall]
    /\ rooms = <<>>
    /\ blocked_tiles = [i \in 0 .. (Width * Height - 1) |-> TRUE]
    /\ entities = [i \in 0 .. (Width * Height - 1) |-> <<>>]
    /\ attempt = 0
    /\ pc = "new"
    /\ coin = NoCoin
    /\ refreshed = FALSE
    /\ op = "none"
    /\ exitIndex = NoIndex
    /\ exits = <<>>
    /\ revealed_tiles = [i \in 0 .. (Width * Height - 1) |-> FALSE]
    /\ visible_tiles = [i \in 0 .. (Width * Height - 1) |-> FALSE]
    /\ drawn = <<>>

\* the pathfinder asks for the exits of the centre tile of a room
ExitsOfRoomCentre ==
    \E k \in 1 .. Len(rooms) :
        GetAvailableExits(index_of(center(rooms[k]).x, center(rooms[k]).y))

Next ==
    \/ NewAttemptAccepted
    \/ NewAttemptRejected
    \/ NewReturn
    \/ UpdateBlockedTiles
    \/ ExitsOfRoomCentre

Spec == Init /\ [][Next]_vars

(***************************************************************************)
(* Specifications of the pure operations: the map is drawn from a bounded   *)
(* set and the operation is applied to it                                   *)
(***************************************************************************)
\* the grids of at most cells tiles
GridDims(cells) ==
    {d \in (1 .. cells) \X (1 .. cells) : d[1] * d[2] <= cells}

\* what a map of w by h tiles holds when no generation and no call is
\* being looked at
InitGrid(w, h) ==
    /\ width = w
    /\ height = h
    /\ rooms = <<>>
    /\ attempt = 0
    /\ pc = "ready"
    /\ coin = NoCoin
    /\ refreshed = FALSE
    /\ op = "none"
    /\ exitIndex = NoIndex
    /\ exits = <<>>
    /\ drawn = <<>>

\* get_available_exits: any tiles, the cache as the constructor leaves it,
\* then refreshed
InitExits ==
    \E d \in GridDims(MaxExitCells) :
        /\ InitGrid(d[1], d[2])
        /\ tiles \in [0 .. (d[1] * d[2] - 1) -> TileType]
        /\ blocked_tiles = [i \in 0 .. (d[1] * d[2] - 1) |-> TRUE]
        /\ entities = [i \in 0 .. (d[1] * d[2] - 1) |-> <<>>]
        /\ revealed_tiles = <<>>
        /\ visible_tiles = <<>>

ExitsOfTile == \E index \in Indices : GetAvailableExits(index)

NextExits == UpdateBlockedTiles \/ ExitsOfTile

SpecExits == InitExits /\ [][NextExits]_vars

\* the occupant lists when each of the handles 1 .. MaxEntities sits on the
\* tile at[e], or on none (NoIndex)
EntitiesAt(cells, at) ==
    [i \in 0 .. (cells - 1) |->
        LET RECURSIVE Listed(_)
            Listed(e) == IF e > MaxEntities THEN <<>>
                         ELSE IF at[e] = i THEN <<e>> \o Listed(e + 1)
                         ELSE Listed(e + 1)
        IN  Listed(1)]

\* update_blocked_tiles and clear_entities: any tiles, any cache, any
\* occupants
InitCache ==
    \E d \in GridDims(MaxCacheCells) :
        /\ InitGrid(d[1], d[2])
        /\ tiles \in [0 .. (d[1] * d[2] - 1) -> TileType]
        /\ blocked_tiles \in [0 .. (d[1] * d[2] - 1) -> BOOLEAN]
        /\ \E at \in [1 .. MaxEntities -> (0 .. (d[1] * d[2] - 1)) \cup {NoIndex}] :
              entities = EntitiesAt(d[1] * d[2], at)
        /\ revealed_tiles = <<>>
        /\ visible_tiles = <<>>

NextCache == UpdateBlockedTiles \/ ClearEntities

SpecCache == InitCache /\ [][NextCache]_vars

\* draw: any tiles, any Viewshed
InitDraw ==
    \E d \in GridDims(MaxDrawCells) :
        /\ InitGrid(d[1], d[2])
        /\ tiles \in [0 .. (d[1] * d[2] - 1) -> TileType]
        /\ blocked_tiles = [i \in 0 .. (d[1] * d[2] - 1) |-> TRUE]
        /\ entities = [i \in 0 .. (d[1] * d[2] - 1) |-> <<>>]
        /\ revealed_tiles \in [0 .. (d[1] * d[2] - 1) -> BOOLEAN]
        /\ visible_tiles \in [0 .. (d[1] * d[2] - 1) -> BOOLEAN]

NextDraw == Draw

SpecDraw == InitDraw /\ [][NextDraw]_vars

(***************************************************************************)
(* Properties                                                              *)
(***************************************************************************)
FloorIndices == {i \in Indices : tiles[i] = Floor}

\* C1: after every placement attempt of Map::new, and so on return, no two
\* distinct rooms of map.rooms overlap: for every two of them, a and b, it is
\* not the case that a.first.x <= b.second.x, a.second.x >= b.first.x,
\* a.first.y <= b.second.y and a.second.y >= b.first.y.
C1_NoOverlap ==
    \A i, j \in 1 .. Len(rooms) :
        i # j =>
            LET a == rooms[i]
                b == rooms[j]
            IN  ~(/\ a.first.x <= b.second.x
                  /\ a.second.x >= b.first.x
                  /\ a.first.y <= b.second.y
                  /\ a.second.y >= b.first.y)

\* two rooms were placed and a later candidate was rejected
C1_Witness == Len(rooms) = 2 /\ attempt > 2

\* C2: every Floor tile of a map under generation or generated lies at
\* 1 <= x <= width-2 and 1 <= y <= height-2; none lies on column 0, row 0,
\* the last column or the last row, and tile 0 is never Floor.
C2_FloorInside ==
    /\ \A i \in Indices :
          tiles[i] = Floor =>
              /\ 1 <= i % width /\ i % width <= width - 2
              /\ 1 <= i \div width /\ i \div width <= height - 2
    /\ tiles[0] # Floor

\* a room and a tunnel were carved, with Floor on the first and on the last
\* row and column that a room can reach
C2_Witness ==
    /\ Len(rooms) = 2
    /\ tiles[(1 * width) + 1] = Floor
    /\ \E i \in Indices :
          tiles[i] = Floor /\ i % width = width - 3 /\ i \div width = height - 3

\* C5: generation never writes blocked_tiles: it is true at every index while
\* Map::new runs and on its return, Floor tiles included, and until the first
\* update_blocked_tiles get_available_exits returns no exit at any index.
C5_StaleUntilRefreshed ==
    ~refreshed =>
        /\ \A i \in Indices : blocked_tiles[i]
        /\ pc = "ready" => \A i \in Indices : get_available_exits(i) = <<>>
        /\ op = "get_available_exits" => exits = <<>>

\* the exits of a Floor tile with Floor neighbours were asked for before any
\* refresh
C5_Witness ==
    /\ pc = "ready"
    /\ ~refreshed
    /\ op = "get_available_exits"
    /\ tiles[exitIndex] = Floor
    /\ tiles[exitIndex + 1] = Floor
    /\ exits = <<>>

\* C6 as stated: Map::new can return an empty room list, some sequence of
\* draws having every attempt rejected. That is so exactly when, as long as
\* no room is placed and attempts remain, the attempt can be a rejected one.
C6_AsStated ==
    (pc = "new" /\ rooms = <<>> /\ attempt < MAX_ROOMS)
        => ENABLED NewAttemptRejected

\* C6 as amended: once an attempt was made at least one room is placed, the
\* first candidate having no room to intersect; a returned map has a room.
C6_FirstAttemptAccepted ==
    /\ attempt >= 1 => Len(rooms) >= 1
    /\ pc = "ready" => Len(rooms) >= 1

\* Map::new returned with a single room: every later attempt was rejected
C6_Witness == pc = "ready" /\ Len(rooms) = 1 /\ attempt = MAX_ROOMS

\* the coordinates between a and b, in either order
Between(a, b) == {v \in 0 .. (width + height) : (a <= v /\ v <= b) \/ (b <= v /\ v <= a)}

\* the coordinates an accepted room r sets to Floor, previous being the rooms
\* accepted before and flip the coin of the attempt
Carved(r, previous, flip) ==
    LET interior == ((r.first.x + 1) .. r.second.x) \X ((r.first.y + 1) .. r.second.y)
        p == center(previous[Len(previous)])
        c == center(r)
        runs == IF flip = 1
                THEN (Between(p.x, c.x) \X {p.y}) \cup ({c.x} \X Between(p.y, c.y))
                ELSE ({p.x} \X Between(p.y, c.y)) \cup (Between(p.x, c.x) \X {c.y})
    IN  IF previous = <<>> THEN interior ELSE interior \cup runs

Cardinals(index) ==
    {n \in {index - 1, index + 1, index - width, index + width} :
        /\ n \in Indices
        /\ (n \div width = index \div width) \/ (n % width = index % width)}

\* the Floor tiles a path of cardinal steps over Floor tiles reaches from
\* the tiles of frontier, seen being those already reached
RECURSIVE Flood(_, _)
Flood(seen, frontier) ==
    IF frontier = {} THEN seen
    ELSE LET next == {n \in UNION {Cardinals(i) : i \in frontier} :
                          tiles[n] = Floor /\ n \notin seen}
         IN  Flood(seen \cup next, next)

\* C10: after every placement attempt of Map::new the Floor tiles are one
\* 4-connected region: the centre of every accepted room is Floor and every
\* Floor tile is reached from starting_position() by cardinal steps over
\* Floor tiles; before the first room there is no Floor tile.
C10_FloorConnected ==
    IF rooms = <<>> THEN FloorIndices = {}
    ELSE LET start == (starting_position.y * width) + starting_position.x
         IN  /\ \A k \in 1 .. Len(rooms) :
                   tiles[(center(rooms[k]).y * width) + center(rooms[k]).x] = Floor
             /\ Flood({start}, {start}) = FloorIndices

\* two rooms whose interiors do not touch, joined only by the tunnel
C10_Witness ==
    /\ Len(rooms) = 2
    /\ \E i \in FloorIndices :
          \A k \in 1 .. 2 :
              ~(/\ rooms[k].first.x < i % width /\ i % width <= rooms[k].second.x
                /\ rooms[k].first.y < i \div width /\ i \div width <= rooms[k].second.y)

\* the eight neighbours of tile index that are in-bound and not blocked in
\* the cache, each with its index and its cost in hundredths
OpenNeighbours(index) ==
    LET x == index % width
        y == index \div width
    IN  {<<((y + d[2]) * width) + (x + d[1]),
           IF d[1] = 0 \/ d[2] = 0 THEN 100 ELSE 145>> :
            d \in {d \in {-1, 0, 1} \X {-1, 0, 1} :
                      /\ d # <<0, 0>>
                      /\ 0 <= x + d[1] /\ x + d[1] < width
                      /\ 0 <= y + d[2] /\ y + d[2] < height
                      /\ ~blocked_tiles[((y + d[2]) * width) + (x + d[1])]}}

Elements(list) == {list[k] : k \in 1 .. Len(list)}

\* the number of exits of the list that cost c hundredths
CostCount(list, c) == Cardinality({k \in 1 .. Len(list) : list[k][2] = c})

C4_CacheMatchesWalls ==
    [][op' = "update_blocked_tiles" =>
          /\ DOMAIN blocked_tiles' = Indices
          /\ \A i \in Indices : blocked_tiles'[i] <=> (tiles'[i] = Wall)
          /\ \A i \in Indices : blocked_tiles'[i] = is_opaque(i)
          /\ tiles' = tiles
          /\ rooms' = rooms
          /\ entities' = entities
      ]_vars

\* a refresh of a grid with a Floor and a Wall tile and an occupant
C4_Witness ==
    /\ op = "update_blocked_tiles"
    /\ \E i, j \in Indices :
          tiles[i] = Floor /\ ~blocked_tiles[i] /\ tiles[j] = Wall /\ blocked_tiles[j]
    /\ \E i \in Indices : entities[i] # <<>>

\* C7: for every in-bound (x, y), index_of(x, y) = y*width + x is an index of
\* the grid and position_of(index_of(x, y)) = (x, y); for every index i of the
\* grid, position_of(i) is in-bound and index_of(position_of(i)) = i.
C7_IndexRoundTrip ==
    /\ \A x \in 0 .. (width - 1), y \in 0 .. (height - 1) :
          /\ is_in_bound(x, y)
          /\ index_of(x, y) = y * width + x
          /\ 0 <= index_of(x, y) /\ index_of(x, y) < width * height
          /\ position_of(index_of(x, y)) = <<x, y>>
    /\ \A i \in 0 .. (width * height - 1) :
          /\ is_in_bound(position_of(i)[1], position_of(i)[2])
          /\ index_of(position_of(i)[1], position_of(i)[2]) = i

\* both conversions ran, in get_available_exits, on a grid that is not square
C7_Witness ==
    /\ op = "get_available_exits"
    /\ width = 2
    /\ height = 4
    /\ exitIndex = 5
    /\ Len(exits) = 5

\* the revealed tile indices in increasing order
RevealedIndices ==
    SelectSeq([k \in 1 .. map_size |-> k - 1], LAMBDA i : revealed_tiles[i])

\* C8: draw makes one call per revealed tile and none for the others, in
\* index order, at (x, y) = position_of(index), with the glyph and the base
\* colour of the tile's type and a black background; the foreground is the
\* greyscale of the base colour exactly when the tile is not visible. draw
\* changes neither the Map nor the Viewshed.
C8_DrawProjection ==
    [][op' = "draw" =>
          /\ Len(drawn') = Len(RevealedIndices)
          /\ \A k \in 1 .. Len(RevealedIndices) :
                LET i == RevealedIndices[k]
                    call == drawn'[k]
                    base == IF tiles[i] = Floor THEN <<0, 500, 500>> ELSE <<0, 1000, 0>>
                IN  /\ call.x = i % width
                    /\ call.y = i \div width
                    /\ <<call.x, call.y>> = position_of(i)
                    /\ call.glyph = (IF tiles[i] = Floor THEN 46 ELSE 35)
                    /\ call.background = <<0, 0, 0>>
                    /\ visible_tiles[i] => call.foreground = base
                    /\ ~visible_tiles[i] => call.foreground = to_greyscale(base)
                    /\ (call.foreground[1] = call.foreground[2]
                        /\ call.foreground[2] = call.foreground[3])
                           <=> ~visible_tiles[i]
          /\ UNCHANGED <<width, height, tiles, rooms, blocked_tiles, entities,
                         revealed_tiles, visible_tiles>>
      ]_vars

\* a draw of a 2 by 2 grid: a visible Floor tile, a tile never revealed, a
\* remembered Wall tile on the second row
C8_Witness ==
    /\ op = "draw"
    /\ width = 2
    /\ height = 2
    /\ tiles[0] = Floor /\ revealed_tiles[0] /\ visible_tiles[0]
    /\ ~revealed_tiles[1]
    /\ tiles[3] = Wall /\ revealed_tiles[3] /\ ~visible_tiles[3]
    /\ Len(drawn) >= 2
    /\ drawn[Len(drawn)].x = 1
    /\ drawn[Len(drawn)].y = 1

=============================================================================
